---- MODULE Spec2Model ----
(***************************************************************************)
(* Model of sqliac: the dependency sorter (utils.py, dependencies_sort),   *)
(* the dependency map builder (utils.py, dependencies_map), the template   *)
(* renderer (utils.py, render_templates), the statement executor           *)
(* (utils.py, execute_rendered_sql_template) and the orchestrator          *)
(* (main.py, run, under the except clauses of main).                       *)
(*                                                                         *)
(* A Python dict is an ordered mapping: it is modelled as a sequence of    *)
(* <<key, value>> pairs with distinct keys, in insertion order.  A string  *)
(* that the code splits or joins is a sequence of tokens, "::" being one   *)
(* token.                                                                  *)
(***************************************************************************)
EXTENDS Integers, Sequences, FiniteSets, TLC

VARIABLES
    \* ---- dependencies_sort called on its own -------------------------
    d_map,          \* the argument of dependencies_sort
    sort_out,       \* Pending, or the outcome of the call
    \* ---- dependencies_map called on its own --------------------------
    map_out,        \* Pending, or the outcome of the call on files
    \* ---- render_templates called on its own --------------------------
    render_args,    \* template, definition, iac_action, name
    render_out,     \* Pending, or the outcome of the call
    \* ---- execute_rendered_sql_template called on its own -------------
    x_calls,        \* the calls made so far, each with what it did
    \* ---- main: run(config) under the except clauses of main ----------
    config,         \* InputConfig: operation, run_mode
    files,          \* the definitions directory: a sequence of files
    pc,             \* position of run
    sorted_map,     \* the list returned by dependencies_sort
    idx,            \* index in sorted_map of the key being processed
    rec,            \* index in the definition file of the record (rsc)
    rsc_drift,      \* iac_action of the last answer of drift.resource_state
    sql,            \* the last rendered action statement
    conn,           \* "none", "open" or "closed"
    trace,          \* what run has done so far, in order
    outcome,        \* "running", "returned", or the exception run raised
    report          \* "none", or the category main printed for it

callVars == <<d_map, sort_out, map_out, render_args, render_out>>
runVars  == <<config, files, pc, sorted_map, idx, rec, rsc_drift, sql,
              conn, trace, outcome, report>>
vars     == <<d_map, sort_out, map_out, render_args, render_out, x_calls,
              config, files, pc, sorted_map, idx, rec, rsc_drift, sql, conn,
              trace, outcome, report>>

----------------------------------------------------------------------------
(* Bounds *)

MaxNodes == 3      \* keys a dependency map given to the sorter may have
MaxEdges == 2      \* dependency entries of such a map, all lists together
MaxRecords == 2    \* definition records in the definitions directory
MaxCalls == 2      \* direct calls of execute_rendered_sql_template

----------------------------------------------------------------------------
(* Ordered dictionaries and sequences *)

Range(s) == {s[i] : i \in 1..Len(s)}

Reverse(s) == [i \in 1..Len(s) |-> s[Len(s) + 1 - i]]

Keys(d) == {d[i][1] : i \in 1..Len(d)}

Has(d, k) == k \in Keys(d)

Get(d, k) == d[CHOOSE i \in 1..Len(d) : d[i][1] = k][2]

\* d[k] = v : replaces the value in place, or appends a new key at the end
Put(d, k, v) ==
    IF Has(d, k)
    THEN [i \in 1..Len(d) |-> IF d[i][1] = k THEN <<k, v>> ELSE d[i]]
    ELSE Append(d, <<k, v>>)

SeqsUpTo(S, n) == UNION {[1..m -> S] : m \in 0..n}

----------------------------------------------------------------------------
(* Utils.dependencies_sort *)

\* for neighbor in neighbors: in_degree[neighbor] = in_degree.get(neighbor, 0) + 1
RECURSIVE CountNeighbors(_, _)
CountNeighbors(in_degree, neighbors) ==
    IF neighbors = <<>> THEN in_degree
    ELSE LET n   == Head(neighbors)
             old == IF Has(in_degree, n) THEN Get(in_degree, n) ELSE 0
         IN  CountNeighbors(Put(in_degree, n, old + 1), Tail(neighbors))

\* for node, neighbors in d_map.items(): setdefault(node, 0), count neighbors
RECURSIVE InDegree(_, _)
InDegree(items, in_degree) ==
    IF items = <<>> THEN in_degree
    ELSE LET node == Head(items)[1]
             withNode == IF Has(in_degree, node) THEN in_degree
                         ELSE Append(in_degree, <<node, 0>>)
         IN  InDegree(Tail(items), CountNeighbors(withNode, Head(items)[2]))

\* [node for node in in_degree if in_degree[node] == 0]
ZeroNodes(in_degree) ==
    LET F[i \in 0..Len(in_degree)] ==
            IF i = 0 THEN <<>>
            ELSE IF in_degree[i][2] = 0 THEN Append(F[i - 1], in_degree[i][1])
                 ELSE F[i - 1]
    IN  F[Len(in_degree)]

\* for neighbor in d_map[current]: decrement, enqueue on reaching zero
RECURSIVE Relax(_, _, _)
Relax(neighbors, in_degree, queue) ==
    IF neighbors = <<>> THEN [in_degree |-> in_degree, queue |-> queue]
    ELSE LET n   == Head(neighbors)
             deg == Get(in_degree, n) - 1
         IN  Relax(Tail(neighbors), Put(in_degree, n, deg),
                   IF deg = 0 THEN Append(queue, n) ELSE queue)

\* while queue: ...   A lookup d_map[current] of a key that is not in the
\* map is the KeyError that the except clause turns into DependencyError.
RECURSIVE SortLoop(_, _, _, _, _)
SortLoop(dm, in_degree, queue, topo_order, processed_count) ==
    IF queue = <<>>
    THEN [raised |-> "none", topo_order |-> topo_order,
          processed_count |-> processed_count]
    ELSE LET current == Head(queue)
             order   == Append(topo_order, current)
         IN  IF ~Has(dm, current)
             THEN [raised |-> "KeyError", topo_order |-> order,
                   processed_count |-> processed_count + 1]
             ELSE LET r == Relax(Get(dm, current), in_degree, Tail(queue))
                  IN  SortLoop(dm, r.in_degree, r.queue, order,
                               processed_count + 1)

\* dependencies_sort returning topo_order as processed, without [::-1]
DependenciesSort_Unreversed(dm) ==
    LET in_degree == InDegree(dm, <<>>)
        loop      == SortLoop(dm, in_degree, ZeroNodes(in_degree), <<>>, 0)
    IN  IF loop.raised = "KeyError"
        THEN [kind |-> "DependencyError", is_cyclical |-> FALSE, order |-> <<>>]
        ELSE IF loop.processed_count # Len(dm)
        THEN [kind |-> "DependencyError", is_cyclical |-> TRUE, order |-> <<>>]
        ELSE [kind |-> "returned", is_cyclical |-> FALSE,
              order |-> loop.topo_order]

\* dependencies_sort without the processed_count check
DependenciesSort_Unchecked(dm) ==
    LET in_degree == InDegree(dm, <<>>)
        loop      == SortLoop(dm, in_degree, ZeroNodes(in_degree), <<>>, 0)
    IN  IF loop.raised = "KeyError"
        THEN [kind |-> "DependencyError", is_cyclical |-> FALSE, order |-> <<>>]
        ELSE [kind |-> "returned", is_cyclical |-> FALSE,
              order |-> Reverse(loop.topo_order)]

\* dependencies_sort whose except clause raises the cyclical kind
DependenciesSort_OneKind(dm) ==
    LET in_degree == InDegree(dm, <<>>)
        loop      == SortLoop(dm, in_degree, ZeroNodes(in_degree), <<>>, 0)
    IN  IF loop.raised = "KeyError"
        THEN [kind |-> "DependencyError", is_cyclical |-> TRUE, order |-> <<>>]
        ELSE IF loop.processed_count # Len(dm)
        THEN [kind |-> "DependencyError", is_cyclical |-> TRUE, order |-> <<>>]
        ELSE [kind |-> "returned", is_cyclical |-> FALSE,
              order |-> Reverse(loop.topo_order)]

\* dependencies_sort whose except clause returns what it has ordered so far
DependenciesSort_PartialOrder(dm) ==
    LET in_degree == InDegree(dm, <<>>)
        loop      == SortLoop(dm, in_degree, ZeroNodes(in_degree), <<>>, 0)
    IN  IF loop.raised = "KeyError"
        THEN [kind |-> "returned", is_cyclical |-> FALSE,
              order |-> Reverse(loop.topo_order)]
        ELSE IF loop.processed_count # Len(dm)
        THEN [kind |-> "DependencyError", is_cyclical |-> TRUE, order |-> <<>>]
        ELSE [kind |-> "returned", is_cyclical |-> FALSE,
              order |-> Reverse(loop.topo_order)]

DependenciesSort(dm) ==
    LET in_degree == InDegree(dm, <<>>)
        loop      == SortLoop(dm, in_degree, ZeroNodes(in_degree), <<>>, 0)
    IN  IF loop.raised = "KeyError"
        THEN [kind |-> "DependencyError", is_cyclical |-> FALSE, order |-> <<>>]
        ELSE IF loop.processed_count # Len(dm)
        THEN [kind |-> "DependencyError", is_cyclical |-> TRUE, order |-> <<>>]
        ELSE [kind |-> "returned", is_cyclical |-> FALSE,
              order |-> Reverse(loop.topo_order)]

----------------------------------------------------------------------------
(* dependencies_sort called on its own, on every bounded dependency map *)

Nodes == 1..MaxNodes            \* the keys a map may define
Ghost == MaxNodes + 1           \* a key that no map defines

\* the key sequences of a map: distinct keys, in any insertion order
KeyOrders == {ks \in SeqsUpTo(Nodes, MaxNodes) :
                 \A i, j \in 1..Len(ks) : i # j => ks[i] # ks[j]}

\* the map with keys ks whose dependency lists are the consecutive slices
\* of es that end at cut[1] <= cut[2] <= ... <= cut[Len(ks)]
SlicedMap(ks, es, cut) ==
    [i \in 1..Len(ks) |->
        <<ks[i], SubSeq(es, (IF i = 1 THEN 0 ELSE cut[i - 1]) + 1, cut[i])>>]

\* d is an ordered dict over Nodes whose lists name keys of Nodes or Ghost
\* and hold at most MaxEdges entries in all
IsSortInput(d) ==
    \E ks \in KeyOrders : \E es \in SeqsUpTo(Nodes \cup {Ghost}, MaxEdges) :
        \E cut \in [1..Len(ks) -> 0..Len(es)] :
            /\ \A i \in 1..(Len(ks) - 1) : cut[i] <= cut[i + 1]
            /\ IF ks = <<>> THEN es = <<>> ELSE cut[Len(ks)] = Len(es)
            /\ d = SlicedMap(ks, es, cut)

Pending == [kind |-> "pending", is_cyclical |-> FALSE, order |-> <<>>]

\* dependencies_map and render_templates not called
NoMap    == [kind |-> "pending", d_map |-> <<>>]
NoRender == [kind |-> "pending"]

SortInit ==
    /\ IsSortInput(d_map)
    /\ sort_out = Pending
    /\ map_out = NoMap /\ render_args = NoRender /\ render_out = NoRender
    /\ x_calls = <<>>
    /\ config = [operation |-> "Plan", run_mode |-> "default"]
    /\ files = <<>> /\ pc = "idle" /\ sorted_map = <<>>
    /\ idx = 0 /\ rec = 0 /\ rsc_drift = "" /\ sql = <<>>
    /\ conn = "none" /\ trace = <<>> /\ outcome = "running" /\ report = "none"

SortCall ==
    /\ sort_out.kind = "pending"
    /\ sort_out' = DependenciesSort(d_map)
    /\ UNCHANGED <<d_map, map_out, render_args, render_out, x_calls, runVars>>

SortNext == SortCall

SpecSort == SortInit /\ [][SortNext]_vars

----------------------------------------------------------------------------
(* Graph vocabulary of the claims about the sorter *)

DepsOf(d, a) == IF Has(d, a) THEN Range(Get(d, a)) ELSE {}

RECURSIVE ReachFrom(_, _)
ReachFrom(d, S) ==
    LET T == S \cup UNION {DepsOf(d, x) : x \in S}
    IN  IF T = S THEN S ELSE ReachFrom(d, T)

\* a depends on b, directly or transitively
DependsOn(d, a, b) == b \in ReachFrom(d, DepsOf(d, a))

OnCycle(d, a) == DependsOn(d, a, a)

HasCycle(d) == \E a \in Keys(d) : OnCycle(d, a)

Undefined(d) == (UNION {DepsOf(d, a) : a \in Keys(d)}) \ Keys(d)

Resolvable(d) == Undefined(d) = {}

\* k is on a cycle, or a key on a cycle depends on k
BehindCycle(d, k) == \E c \in Keys(d) : OnCycle(d, c) /\ k \in ReachFrom(d, {c})

Referrers(d, g) == {a \in Keys(d) : g \in DepsOf(d, a)}

IndexOf(s, k) == CHOOSE i \in 1..Len(s) : s[i] = k

IsPermutationOfKeys(s, d) ==
    /\ Len(s) = Len(d)
    /\ Range(s) = Keys(d)

Sorted == sort_out.kind # "pending"

----------------------------------------------------------------------------
(* Claims about dependencies_sort, checked under SpecSort *)

\* C1: for every map without a cycle whose references all resolve,
\* dependencies_sort returns a list holding every key of the map exactly
\* once in which every dependency comes before the key that depends on it.
C1_SortOrdersDependenciesFirst ==
    (Sorted /\ ~HasCycle(d_map) /\ Resolvable(d_map)) =>
        /\ sort_out.kind = "returned"
        /\ IsPermutationOfKeys(sort_out.order, d_map)
        /\ \A a \in Keys(d_map) : \A b \in DepsOf(d_map, a) :
               IndexOf(sort_out.order, b) < IndexOf(sort_out.order, a)

\* a chain of three keys, sorted
C1_Witness ==
    /\ sort_out.kind = "returned"
    /\ Len(d_map) = 3
    /\ \E a, b, c \in Keys(d_map) :
          /\ a # b /\ b # c /\ a # c
          /\ b \in DepsOf(d_map, a)
          /\ c \in DepsOf(d_map, b)

\* C2: for every map whose references all resolve and that has a cycle
\* (a self-dependency included), dependencies_sort raises the cyclical
\* DependencyError and returns no order.
C2_CycleRaisesCyclical ==
    (Sorted /\ HasCycle(d_map) /\ Resolvable(d_map)) =>
        /\ sort_out.kind = "DependencyError"
        /\ sort_out.is_cyclical

\* a cycle next to a key that is on no cycle and could have been ordered
C2_Witness ==
    /\ sort_out.kind = "DependencyError"
    /\ sort_out.is_cyclical
    /\ Resolvable(d_map)
    /\ \E a, b \in Keys(d_map) : a # b /\ OnCycle(d_map, a) /\ ~BehindCycle(d_map, b)

\* C3 as stated: every map with an undefined reference raises the
\* non-cyclical DependencyError, wherever the reference sits.
C3_UndefinedAlwaysNonCyclical ==
    (Sorted /\ ~Resolvable(d_map)) =>
        /\ sort_out.kind = "DependencyError"
        /\ ~sort_out.is_cyclical

\* some undefined key is referenced only by keys that get processed
GhostReached(d) ==
    \E g \in Undefined(d) : \A a \in Referrers(d, g) : ~BehindCycle(d, a)

\* C3 amended: a map with an undefined reference raises DependencyError;
\* the non-cyclical kind exactly when some undefined key is referenced only
\* by keys that are neither on a cycle nor depended upon by a key on a cycle
\* (so always when the map has no cycle), the cyclical kind otherwise.
C3_UndefinedRaisesByPosition ==
    (Sorted /\ ~Resolvable(d_map)) =>
        /\ sort_out.kind = "DependencyError"
        /\ sort_out.is_cyclical = ~GhostReached(d_map)
        /\ ~HasCycle(d_map) => ~sort_out.is_cyclical

\* an undefined key referenced from a map that also has a cycle
C3_Witness ==
    /\ sort_out.kind = "DependencyError"
    /\ ~sort_out.is_cyclical
    /\ HasCycle(d_map)
    /\ Undefined(d_map) # {}

----------------------------------------------------------------------------
(* Strings: a sequence of tokens, the separator "::" being one token *)

Sep == "::"

\* f"{resource}::{name}"
MakeKey(resource, name) == resource \o <<Sep>> \o name

\* s.split("::")
RECURSIVE Split(_)
Split(s) ==
    IF Sep \notin Range(s) THEN <<s>>
    ELSE LET i == CHOOSE j \in 1..Len(s) :
                      s[j] = Sep /\ \A k \in 1..(j - 1) : s[k] # Sep
         IN  <<SubSeq(s, 1, i - 1)>> \o Split(SubSeq(s, i + 1, Len(s)))

\* run_mode.lower(), on the run modes of the model
Lower(s) ==
    CASE s = "Destroy" -> "destroy"
      [] OTHER -> s

----------------------------------------------------------------------------
(* Utils.dependencies_map *)

\* A definition file: stem is its name without ".toml"; kind is
\* "unreadable" (open or tomllib.load raises), "empty" (no top-level key) or
\* "table" (one top-level key, rtype, holding the array records).
\* A record: name, has_depends_on, depends_on (an ordered dict from a
\* resource type to a list of names).  Its other fields are read by run
\* only: wait_time is chosen where run reads it.

\* [f"{key}::{i}" for i in value]
DepKeys(key, value) == [j \in 1..Len(value) |-> MakeKey(key, value[j])]

\* d_hash = [f"{key}::{i}" for key, value in dependencies.items() for i in value]
RECURSIVE DHash(_)
DHash(dependencies) ==
    IF dependencies = <<>> THEN <<>>
    ELSE DepKeys(Head(dependencies)[1], Head(dependencies)[2])
             \o DHash(Tail(dependencies))

\* a record without depends_on taken as one with no dependencies
MissingDependsOn_Never(i) == FALSE

\* dependencies = i.get("depends_on", "missing"); dependencies == "missing"
MissingDependsOn(i) == ~i.has_depends_on

\* for i in definition[resource]: ...  raising on the first record without
\* depends_on: DefinitionKeyError(keys=["depends_on"], name=resource, ...)
RECURSIVE MapRecords(_, _, _)
MapRecords(resource, records, dm) ==
    IF records = <<>> THEN [kind |-> "returned", d_map |-> dm]
    ELSE LET i == Head(records)
         IN  IF MissingDependsOn(i)
             THEN [kind |-> "DefinitionKeyError", d_map |-> <<>>,
                   keys |-> <<"depends_on">>, name |-> resource]
             ELSE MapRecords(resource, Tail(records),
                             Put(dm, MakeKey(resource, i.name), DHash(i.depends_on)))

\* for file in definitions_files: ...
RECURSIVE MapFiles(_, _)
MapFiles(fs, dm) ==
    IF fs = <<>> THEN [kind |-> "returned", d_map |-> dm]
    ELSE LET file == Head(fs)
         IN  IF file.kind = "unreadable"
             THEN [kind |-> "FileError", d_map |-> <<>>,
                   resource_type |-> file.stem]
             ELSE IF file.kind = "empty"
             THEN MapFiles(Tail(fs), dm)
             ELSE LET r == MapRecords(file.rtype, file.records, dm)
                  IN  IF r.kind # "returned" THEN r
                      ELSE MapFiles(Tail(fs), r.d_map)

DependenciesMap(fs) == MapFiles(fs, <<>>)

----------------------------------------------------------------------------
(* Utils.execute_rendered_sql_template *)

\* the parameters of the method after self, and those without a default
ExecParams   == {"conn", "sql", "operation", "depends_on", "wait_time"}
ExecRequired == {"conn", "sql", "operation"}

\* binding the keyword arguments of a call to the parameters: an unknown
\* keyword or a missing required parameter is a TypeError before the body
Binds(kwargs) == kwargs \subseteq ExecParams /\ ExecRequired \subseteq kwargs

\* what SQLExecutionError(error=err, sql=sql) stores: self.original_error
\* and self.sql (the panel it prints shows at most 500 characters of sql)
Carried == {"original_error", "sql"}

\* the body running the statement whatever the operation
ExecuteBody_AnyOperation(operation, wait_time, driver_ok) ==
    IF ~driver_ok
    THEN [raised |-> "SQLExecutionError", carries |-> Carried,
          events |-> <<"exec_driver_sql failed">>]
    ELSE [raised |-> "none", carries |-> {},
          events |-> <<"exec_driver_sql", "print">>
                     \o (IF wait_time # 0 THEN <<"sleep">> ELSE <<>>)]

\* the body with the pause in a finally clause
ExecuteBody_PauseInFinally(operation, wait_time, driver_ok) ==
    IF operation = "Apply"
    THEN IF ~driver_ok
         THEN [raised |-> "SQLExecutionError", carries |-> Carried,
               events |-> <<"exec_driver_sql failed">>
                          \o (IF wait_time # 0 THEN <<"sleep">> ELSE <<>>)]
         ELSE [raised |-> "none", carries |-> {},
               events |-> <<"exec_driver_sql", "print">>
                          \o (IF wait_time # 0 THEN <<"sleep">> ELSE <<>>)]
    ELSE [raised |-> "none", carries |-> {}, events |-> <<"print">>]

\* the body pausing on wait_time alone, whatever the operation
ExecuteBody_PauseInPlan(operation, wait_time, driver_ok) ==
    IF operation = "Apply"
    THEN IF ~driver_ok
         THEN [raised |-> "SQLExecutionError", carries |-> Carried,
               events |-> <<"exec_driver_sql failed">>]
         ELSE [raised |-> "none", carries |-> {},
               events |-> <<"exec_driver_sql", "print">>
                          \o (IF wait_time # 0 THEN <<"sleep">> ELSE <<>>)]
    ELSE [raised |-> "none", carries |-> {},
          events |-> <<"print">> \o (IF wait_time # 0 THEN <<"sleep">> ELSE <<>>)]

\* The body.  events lists what the call does, in order:
\* "exec_driver_sql" (the driver ran the statement), "exec_driver_sql failed"
\* (the driver raised on it), "print" (the panel with the statement),
\* "sleep" (time.sleep(wait_time)).  wait_time 0 stands for None.
ExecuteBody(operation, wait_time, driver_ok) ==
    IF operation = "Apply"
    THEN IF ~driver_ok
         THEN [raised |-> "SQLExecutionError", carries |-> Carried,
               events |-> <<"exec_driver_sql failed">>]
         ELSE [raised |-> "none", carries |-> {},
               events |-> <<"exec_driver_sql", "print">>
                          \o (IF wait_time # 0 THEN <<"sleep">> ELSE <<>>)]
    ELSE [raised |-> "none", carries |-> {}, events |-> <<"print">>]

ExecuteRenderedSqlTemplate(kwargs, operation, wait_time, driver_ok) ==
    IF ~Binds(kwargs)
    THEN [raised |-> "TypeError", carries |-> {}, events |-> <<>>]
    ELSE ExecuteBody(operation, wait_time, driver_ok)

Operations == {"Plan", "Apply"}
WaitTimes  == {0, 1}

\* the keywords of the calls in tests/test_utils.py
TestKwargs == {"conn", "sql", "operation", "depends_on", "wait_time"}

\* a direct call, as the unit test makes it
ExecCall ==
    /\ pc = "idle"
    /\ Len(x_calls) < MaxCalls
    /\ \E operation \in Operations, wait_time \in WaitTimes, driver_ok \in BOOLEAN :
          LET r == ExecuteRenderedSqlTemplate(TestKwargs, operation, wait_time,
                                              driver_ok)
          IN  x_calls' = Append(x_calls,
                  [operation |-> operation, wait_time |-> wait_time,
                   driver_ok |-> driver_ok, raised |-> r.raised,
                   carries |-> r.carries, events |-> r.events])
    /\ UNCHANGED <<callVars, runVars>>

----------------------------------------------------------------------------
(* main.run *)

Types == {<<"role">>, <<"db">>}
Names == {<<"x">>, <<"y">>}
RunModes == {"create-or-update", "destroy", "Destroy", "default"}
DriftActions == {"create", "alter", "no action"}

\* the keywords of the three calls of execute_rendered_sql_template in run
RunKwargs == {"connection", "sql", "dependencies", "operation", "wait_time"}

\* run connecting before it builds the plan
Stages_ConnectFirst == <<"connect", "plan", "resources", "loop">>

\* the statements of run before its loop, in order
Stages == <<"plan", "connect", "resources", "loop">>

StageAfter(p) == Stages[(CHOOSE i \in 1..Len(Stages) : Stages[i] = p) + 1]

\* an entry of trace
Ev(op, key, tmpl, def, kw) ==
    [op |-> op, key |-> key, tmpl |-> tmpl, def |-> def, kw |-> kw]

\* main: except (TemplateFileError, FileError) prints "Configuration error",
\* except Exception prints "Unexpected error"; both re-raise
ConfigurationErrors == {"TemplateFileError", "FileError"}

MainReports(exc) ==
    IF exc \in ConfigurationErrors THEN "Configuration error"
    ELSE "Unexpected error"

\* an exception that leaves run through no except clause of run, and
\* reaches main
Propagates(exc) ==
    /\ pc' = "raised"
    /\ outcome' = exc
    /\ report' = MainReports(exc)
    /\ trace' = Append(trace, Ev("exception", <<>>, "", "", exc))
    /\ UNCHANGED conn

\* an except clause that logs the error and lets the loop continue
Handler_Continue == [pc |-> "records", conn |-> "open", outcome |-> "running"]

\* except Exception as err: conn.close(); raise TemplateFileError(...)
Handler == [pc |-> "raised", conn |-> "closed", outcome |-> "TemplateFileError"]

\* an exception raised inside the try block of the loop body, after the
\* events evs of the statement that raised it; what run raises reaches main
Handled(evs, exc) ==
    /\ pc' = Handler.pc
    /\ conn' = Handler.conn
    /\ outcome' = IF Handler.pc = "raised" THEN Handler.outcome ELSE outcome
    /\ report' = IF Handler.pc = "raised" THEN MainReports(Handler.outcome)
                 ELSE report
    /\ trace' = trace \o evs
                  \o <<Ev("exception", sorted_map[idx], "", "", exc)>>
                  \o (IF Handler.conn = "closed"
                      THEN <<Ev("close", <<>>, "", "", "")>> ELSE <<>>)

\* d_map = utils.dependencies_map(); sorted_map = utils.dependencies_sort(d_map)
RunPlan ==
    /\ pc = "plan"
    /\ LET m == DependenciesMap(files)
           r == DependenciesSort(m.d_map)
       IN  IF m.kind # "returned"
           THEN Propagates(m.kind) /\ UNCHANGED sorted_map
           ELSE IF r.kind # "returned"
           THEN /\ Propagates(IF r.is_cyclical THEN "DependencyError cyclical"
                              ELSE "DependencyError incorrect")
                /\ UNCHANGED sorted_map
           ELSE /\ sorted_map' = r.order
                /\ pc' = StageAfter("plan")
                /\ UNCHANGED <<conn, trace, outcome, report>>
    /\ UNCHANGED <<callVars, x_calls, config, files, idx, rec, rsc_drift, sql>>

\* conn = utils.create_db_sys_connection(...); drift = Drift(conn=conn)
RunConnect ==
    /\ pc = "connect"
    /\ \E ok \in BOOLEAN :
          IF ok
          THEN /\ conn' = "open"
               /\ trace' = Append(trace, Ev("connect", <<>>, "", "", ""))
               /\ pc' = StageAfter("connect")
               /\ UNCHANGED <<outcome, report>>
          ELSE Propagates("ConnectionError")
    /\ UNCHANGED <<callVars, x_calls, config, files, sorted_map, idx, rec,
                   rsc_drift, sql>>

\* with open(config.resources_path) ...: db_sys_resources = ...["resources"]
RunLoadResources ==
    /\ pc = "resources"
    /\ \E r \in {"ok", "FileNotFoundError", "KeyError"} :
          CASE r = "ok" -> /\ pc' = StageAfter("resources")
                           /\ UNCHANGED <<conn, trace, outcome, report>>
            [] r = "FileNotFoundError" -> Propagates("FileError")
            [] r = "KeyError" -> Propagates("KeyError")
    /\ UNCHANGED <<callVars, x_calls, config, files, sorted_map, idx, rec,
                   rsc_drift, sql>>

\* the file named f"{resource_type}.toml", if the directory has one
HasFile(resource_type) == \E i \in 1..Len(files) : files[i].stem = resource_type
FileOf(resource_type) ==
    files[CHOOSE i \in 1..Len(files) : files[i].stem = resource_type]

\* for i in sorted_map: split the key, open and load its definition file.
\* Unpacking a split of other than two parts is a ValueError (no name of
\* Names holds a separator); only FileNotFoundError becomes FileError.
RunNextKey ==
    /\ pc = "loop"
    /\ idx < Len(sorted_map)
    /\ idx' = idx + 1
    /\ rec' = 0
    /\ LET parts == Split(sorted_map[idx + 1])
       IN  IF Len(parts) # 2
           THEN Propagates("ValueError")
           ELSE IF ~HasFile(parts[1])
           THEN Propagates("FileError")
           ELSE IF FileOf(parts[1]).kind = "unreadable"
           THEN Propagates("TOMLDecodeError")
           ELSE /\ trace' = Append(trace, Ev("load", sorted_map[idx + 1], "", "", ""))
                /\ pc' = "records"
                /\ UNCHANGED <<conn, outcome, report>>
    /\ UNCHANGED <<callVars, x_calls, config, files, sorted_map, rsc_drift, sql>>

\* after the loop: conn.close()
RunFinish ==
    /\ pc = "loop"
    /\ idx = Len(sorted_map)
    /\ conn' = "closed"
    /\ trace' = Append(trace, Ev("close", <<>>, "", "", ""))
    /\ pc' = "done"
    /\ outcome' = "returned"
    /\ UNCHANGED <<callVars, x_calls, config, files, sorted_map, idx, rec,
                   rsc_drift, sql, report>>

ResourceType == Split(sorted_map[idx])[1]
ResourceName == Split(sorted_map[idx])[2]

\* for rsc in definition[resource_type]: if rsc["name"] == resource_name
RunNextRecord ==
    /\ pc = "records"
    /\ LET file == FileOf(ResourceType)
           later == {j \in (rec + 1)..Len(file.records) :
                        file.records[j].name = ResourceName}
       IN  IF file.kind # "table" \/ file.rtype # ResourceType
           THEN Handled(<<>>, "KeyError") /\ UNCHANGED rec
           ELSE IF later = {}
           THEN /\ pc' = "loop"
                /\ UNCHANGED <<rec, conn, trace, outcome, report>>
           ELSE /\ rec' = CHOOSE j \in later : \A k \in later : j <= k
                /\ pc' = "state_query"
                /\ UNCHANGED <<conn, trace, outcome, report>>
    /\ UNCHANGED <<callVars, x_calls, config, files, sorted_map, idx,
                   rsc_drift, sql>>

\* rsc_state_query = utils.render_templates(template=...["state_query"], ...)
RunStateQuery ==
    /\ pc = "state_query"
    /\ LET call == Ev("render", sorted_map[idx], "state_query", "rsc", "")
       IN  \E ok \in BOOLEAN :
              IF ok
              THEN /\ trace' = Append(trace, call)
                   /\ pc' = "drift"
                   /\ UNCHANGED <<conn, outcome, report>>
              ELSE Handled(<<call>>, "TemplateFileError")
    /\ UNCHANGED <<callVars, x_calls, config, files, sorted_map, idx, rec,
                   rsc_drift, sql>>

\* rsc_drift = drift.resource_state(definition=rsc, ...)
RunDrift ==
    /\ pc = "drift"
    /\ \E r \in DriftActions \cup {"raises"} :
          IF r # "raises"
          THEN /\ rsc_drift' = r
               /\ trace' = Append(trace, Ev("drift", sorted_map[idx], "", "rsc", r))
               /\ pc' = "dispatch"
               /\ UNCHANGED <<conn, outcome, report>>
          ELSE /\ Handled(<<Ev("drift", sorted_map[idx], "", "rsc", r)>>, "DriftError")
               /\ UNCHANGED rsc_drift
    /\ UNCHANGED <<callVars, x_calls, config, files, sorted_map, idx, rec, sql>>

\* the chain with the alter branch as a plain else
Dispatch_ElseAlter(run_mode, iac_action) ==
    IF Lower(run_mode) = "create-or-update"
    THEN CASE iac_action = "create" -> "create"
           [] OTHER -> "alter"
    ELSE IF Lower(run_mode) = "destroy" THEN "drop"
    ELSE "skip"

\* the chain with destroy skipping a resource that drift reports unchanged
Dispatch_DestroyDrifted(run_mode, iac_action) ==
    IF Lower(run_mode) = "create-or-update"
    THEN CASE iac_action = "create" -> "create"
           [] iac_action = "no action" -> "skip"
           [] iac_action = "alter" -> "alter"
           [] OTHER -> "skip"
    ELSE IF Lower(run_mode) = "destroy"
    THEN (IF iac_action = "no action" THEN "skip" ELSE "drop")
    ELSE "skip"

\* the chain ending in an else that takes any other run mode for destroy
Dispatch_ElseDestroy(run_mode, iac_action) ==
    IF Lower(run_mode) = "create-or-update"
    THEN CASE iac_action = "create" -> "create"
           [] iac_action = "no action" -> "skip"
           [] iac_action = "alter" -> "alter"
           [] OTHER -> "skip"
    ELSE "drop"

\* the if/elif chain on run_mode and iac_action: the key of the iac_action
\* map whose keyword the action template is rendered with, or "skip"
Dispatch(run_mode, iac_action) ==
    IF Lower(run_mode) = "create-or-update"
    THEN CASE iac_action = "create" -> "create"
           [] iac_action = "no action" -> "skip"
           [] iac_action = "alter" -> "alter"
           [] OTHER -> "skip"
    ELSE IF Lower(run_mode) = "destroy" THEN "drop"
    ELSE "skip"

\* sql = utils.render_templates(template=...["template"],
\*           definition=rsc_drift["definition"], iac_action=...)
RunDispatch ==
    /\ pc = "dispatch"
    /\ LET kw   == Dispatch(config.run_mode, rsc_drift)
           call == Ev("render", sorted_map[idx], "template", "drift", kw)
       IN  IF kw = "skip"
           THEN /\ pc' = "records"
                /\ UNCHANGED <<sql, conn, trace, outcome, report>>
           ELSE \E ok \in BOOLEAN :
                   IF ok
                   THEN /\ sql' = <<sorted_map[idx], kw>>
                        /\ trace' = Append(trace, call)
                        /\ pc' = "execute"
                        /\ UNCHANGED <<conn, outcome, report>>
                   ELSE /\ Handled(<<call>>, "TemplateFileError")
                        /\ UNCHANGED sql
    /\ UNCHANGED <<callVars, x_calls, config, files, sorted_map, idx, rec,
                   rsc_drift>>

\* utils.execute_rendered_sql_template(connection=conn, sql=sql,
\*     dependencies=..., operation=config.operation, wait_time=rsc.get(...))
\* wait_time is the record's field, read here; whatever the call raises is
\* raised inside the try block.
RunExecute ==
    /\ pc = "execute"
    /\ \E driver_ok \in BOOLEAN, wait_time \in WaitTimes :
          LET r    == ExecuteRenderedSqlTemplate(RunKwargs, config.operation,
                                                 wait_time, driver_ok)
              call == Ev("call", sql[1], "", "", sql[2])
              evs  == [i \in 1..Len(r.events) |->
                          Ev(r.events[i], sql[1], "", "", sql[2])]
          IN  IF r.raised = "none"
              THEN /\ trace' = trace \o <<call>> \o evs
                   /\ pc' = "records"
                   /\ UNCHANGED <<conn, outcome, report>>
              ELSE Handled(<<call>> \o evs, r.raised)
    /\ UNCHANGED <<callVars, x_calls, config, files, sorted_map, idx, rec,
                   rsc_drift, sql>>

----------------------------------------------------------------------------
(* The inputs of run: a definitions directory and an InputConfig *)

\* depends_on of a record: empty, or one role
DependsOnChoices ==
    {<<>>} \cup {<< <<<<"role">>, <<n>>>> >> : n \in Names}

RecordChoices ==
    {r \in [name : Names, has_depends_on : BOOLEAN,
            depends_on : DependsOnChoices] :
        ~r.has_depends_on => r.depends_on = <<>>}

\* the file names of a directory, in the order os.listdir gives them (here
\* the alphabetical one)
StemOrders == {<<>>, <<<<"db">>>>, <<<<"role">>>>, <<<<"db">>, <<"role">>>>}

FileShapes ==
    {[kind |-> "unreadable", rtype |-> <<>>], [kind |-> "empty", rtype |-> <<>>]}
    \cup {[kind |-> "table", rtype |-> t] : t \in Types}

\* fs is a directory whose file names, in listing order, are one of stems
\* and whose records, at most MaxRecords in all, are drawn from choices: the
\* records recs cut into consecutive slices, one per file
IsDirectory(fs, stems, choices) ==
    \E st \in stems : \E recs \in SeqsUpTo(choices, MaxRecords) :
        \E cut \in [1..Len(st) -> 0..Len(recs)] : \E shape \in [1..Len(st) -> FileShapes] :
            /\ \A i \in 1..(Len(st) - 1) : cut[i] <= cut[i + 1]
            /\ IF st = <<>> THEN recs = <<>> ELSE cut[Len(st)] = Len(recs)
            /\ \A i \in 1..Len(st) :
                  shape[i].kind # "table" =>
                      cut[i] = (IF i = 1 THEN 0 ELSE cut[i - 1])
            /\ fs = [i \in 1..Len(st) |->
                        [stem |-> st[i], kind |-> shape[i].kind,
                         rtype |-> shape[i].rtype,
                         records |-> SubSeq(recs, (IF i = 1 THEN 0 ELSE cut[i - 1]) + 1,
                                            cut[i])]]

IsDefinitionsDir(fs) == IsDirectory(fs, StemOrders, RecordChoices)

RunInit ==
    /\ d_map = <<>> /\ sort_out = Pending /\ x_calls = <<>>
    /\ map_out = NoMap /\ render_args = NoRender /\ render_out = NoRender
    /\ \/ /\ pc = "idle"
          /\ config = [operation |-> "Plan", run_mode |-> "default"]
          /\ files = <<>>
       \/ /\ pc = Stages[1]
          /\ config \in [operation : Operations, run_mode : RunModes]
          /\ IsDefinitionsDir(files)
    /\ sorted_map = <<>> /\ idx = 0 /\ rec = 0 /\ rsc_drift = "" /\ sql = <<>>
    /\ conn = "none" /\ trace = <<>> /\ outcome = "running" /\ report = "none"

RunNext ==
    \/ RunPlan
    \/ RunConnect
    \/ RunLoadResources
    \/ RunNextKey
    \/ RunFinish
    \/ RunNextRecord
    \/ RunStateQuery
    \/ RunDrift
    \/ RunDispatch
    \/ RunExecute
    \/ ExecCall

SpecRun == RunInit /\ [][RunNext]_vars

----------------------------------------------------------------------------
(* Claims about run, checked under SpecRun *)

Positions == 1..Len(trace)

ExecOps == {"exec_driver_sql", "exec_driver_sql failed"}

\* drift answered with an iac_action at position p and run has gone on
Answered(p) ==
    /\ trace[p].op = "drift"
    /\ trace[p].kw \in DriftActions
    /\ p < Len(trace)

ActionRender(key, kw) == Ev("render", key, "template", "drift", kw)

\* run has left the resource of position p for the next record or key, or
\* has finished the order
MovedOn(p) ==
    \/ trace[p + 1].op \in {"load", "close"}
    \/ trace[p + 1].op = "render" /\ trace[p + 1].tmpl = "state_query"
    \/ trace[p + 1].op = "exception" /\ trace[p + 1].key = <<>>

\* C4: in an Apply run, every rendered action statement that run hands to
\* execute_rendered_sql_template is executed on the connection, that
\* statement and at once, before anything else happens.
C4_ApplyExecutesRendered ==
    config.operation = "Apply" =>
        \A p \in Positions :
            trace[p].op = "call" =>
                /\ p < Len(trace)
                /\ trace[p + 1].op \in ExecOps
                /\ trace[p + 1].key = trace[p].key
                /\ trace[p + 1].kw = trace[p].kw

\* C5: in create-or-update mode, after drift reports create (alter) the
\* action template is rendered with the create (alter) keyword against the
\* definition drift returned; after it reports no action nothing is
\* rendered or executed for the resource and run goes on.
C5_CreateOrUpdateDispatch ==
    Lower(config.run_mode) = "create-or-update" =>
        \A p \in Positions :
            /\ (Answered(p) /\ trace[p].kw \in {"create", "alter"}) =>
                   trace[p + 1] = ActionRender(trace[p].key, trace[p].kw)
            /\ (Answered(p) /\ trace[p].kw = "no action") => MovedOn(p)
            /\ (trace[p].op = "drift" /\ trace[p].kw = "no action"
                    /\ p = Len(trace)) => outcome = "running"

\* no action for the first resource, then a create or alter rendered for
\* the second
C5_Witness ==
    /\ Lower(config.run_mode) = "create-or-update"
    /\ \E p, q \in Positions :
          /\ p < q /\ q < Len(trace)
          /\ trace[p].op = "drift" /\ trace[p].kw = "no action"
          /\ trace[p + 1].op = "load"
          /\ trace[q].op = "drift" /\ trace[q].kw \in {"create", "alter"}
          /\ trace[q + 1] = ActionRender(trace[q].key, trace[q].kw)
          /\ trace[q].key # trace[p].key

\* C6: in destroy mode, whatever iac_action drift reports for a resource,
\* the action template is rendered with the drop keyword against the
\* definition drift returned.
C6_DestroyRendersDrop ==
    Lower(config.run_mode) = "destroy" =>
        \A p \in Positions :
            Answered(p) => trace[p + 1] = ActionRender(trace[p].key, "drop")

\* drift reported no action and the drop template was rendered all the same
C6_Witness ==
    /\ Lower(config.run_mode) = "destroy"
    /\ \E p \in Positions :
          /\ Answered(p) /\ trace[p].kw = "no action"
          /\ trace[p + 1] = ActionRender(trace[p].key, "drop")

\* C7: with operation = Plan no statement reaches the driver: not in a run,
\* in either run mode, and not in a call of execute_rendered_sql_template,
\* which only prints the statement.
C7_PlanNeverExecutes ==
    /\ config.operation = "Plan" =>
           \A p \in Positions : trace[p].op \notin ExecOps
    /\ \A c \in 1..Len(x_calls) :
           x_calls[c].operation = "Plan" =>
               /\ Range(x_calls[c].events) \cap ExecOps = {}
               /\ x_calls[c].events = <<"print">>

\* a Plan run that rendered an action statement and passed it on
C7_Witness ==
    /\ config.operation = "Plan"
    /\ pc = "raised"
    /\ \E p \in Positions : trace[p].op = "call" /\ trace[p].kw = "drop"

\* C8: once processing a resource raises, run ends with an error: nothing
\* follows the exception but the closing of the connection, and no later
\* key of the order appears in anything run did.
C8_FailFast ==
    /\ \A p \in Positions :
           trace[p].op = "exception" =>
               \A q \in (p + 1)..Len(trace) : trace[q].op = "close"
    /\ (\E p \in Positions : trace[p].op = "exception") =>
           /\ pc = "raised"
           /\ outcome \notin {"running", "returned"}
           /\ \A j \in (idx + 1)..Len(sorted_map) : \A p \in Positions :
                  trace[p].key # sorted_map[j]

\* the first of two resources failed after drift answered
C8_Witness ==
    /\ outcome = "TemplateFileError"
    /\ idx = 1 /\ Len(sorted_map) = 2
    /\ \E p \in Positions : trace[p].op = "drift" /\ trace[p].kw \in DriftActions

\* C9: every termination of run after the connection was opened leaves it
\* closed.
C9_TerminationClosesConnection ==
    (outcome # "running" /\ conn # "none") => conn = "closed"

\* building the plan fails on these definition files
PlanFails ==
    LET m == DependenciesMap(files)
    IN  \/ m.kind # "returned"
        \/ DependenciesSort(m.d_map).kind # "returned"

PlanErrors == {"FileError", "DefinitionKeyError", "DependencyError cyclical",
               "DependencyError incorrect"}

\* C10: if building the plan fails, run has ended with that error, with the
\* connection never opened, drift never called and no statement executed:
\* all it did was raise.
C10_PlanFailureBeforeConnection ==
    \/ outcome = "running"
    \/ /\ outcome \in PlanErrors
       /\ conn = "none"
       /\ \A p \in Positions : trace[p].op = "exception"
    \/ ~PlanFails

\* run ended on a cycle in a map of two keys
C10_Witness ==
    /\ outcome = "DependencyError cyclical"
    /\ Len(DependenciesMap(files).d_map) = 2
    /\ conn = "none"

\* the d_map run sorted
RunMap == DependenciesMap(files).d_map

\* C11: in destroy mode, for every edge (A depends on B), A's drop
\* statement is rendered before B's: when B's drop is rendered, the drop of
\* every key that depends on B has been rendered already.
C11_DestroyDropsDependentsFirst ==
    Lower(config.run_mode) = "destroy" =>
        \A p \in Positions :
            (trace[p].op = "render" /\ trace[p].tmpl = "template") =>
                \A a \in Keys(RunMap) :
                    (a # trace[p].key /\ trace[p].key \in DepsOf(RunMap, a)) =>
                        \E q \in 1..(p - 1) : trace[q] = ActionRender(a, "drop")

\* C14: an Apply call on which the driver raises ends in SQLExecutionError
\* carrying the driver's error and the statement, and does not pause; in a
\* run nothing is executed and no pause is made after a driver failure.
C14_DriverErrorIsWrapped ==
    /\ \A c \in 1..Len(x_calls) :
           (x_calls[c].operation = "Apply" /\ ~x_calls[c].driver_ok) =>
               /\ x_calls[c].raised = "SQLExecutionError"
               /\ x_calls[c].carries = {"original_error", "sql"}
               /\ x_calls[c].events = <<"exec_driver_sql failed">>
    /\ \A p \in Positions :
           trace[p].op = "exec_driver_sql failed" =>
               \A q \in (p + 1)..Len(trace) :
                   trace[q].op \notin ExecOps \cup {"sleep"}

\* the driver raised in an Apply call that was given a wait_time
C14_Witness ==
    \E c \in 1..Len(x_calls) :
        /\ x_calls[c].operation = "Apply" /\ ~x_calls[c].driver_ok
        /\ x_calls[c].wait_time # 0
        /\ x_calls[c].raised = "SQLExecutionError"

\* C15: a call pauses exactly when the operation is Apply, a wait_time is
\* given and the driver ran the statement; the pause is the last thing the
\* call does, after the execution; in a run it follows the execution of the
\* same resource's statement, and only under Apply.
C15_PauseOnlyAfterAppliedStatement ==
    /\ \A c \in 1..Len(x_calls) :
           /\ ("sleep" \in Range(x_calls[c].events)) <=>
                  /\ x_calls[c].operation = "Apply"
                  /\ x_calls[c].wait_time # 0
                  /\ x_calls[c].driver_ok
           /\ ("sleep" \in Range(x_calls[c].events)) =>
                  x_calls[c].events = <<"exec_driver_sql", "print", "sleep">>
    /\ \A p \in Positions :
           trace[p].op = "sleep" =>
               /\ config.operation = "Apply"
               /\ p > 2
               /\ trace[p - 2].op = "exec_driver_sql"
               /\ trace[p - 2].key = trace[p].key

\* an Apply call that paused, then a Plan call with a wait_time that did not
C15_Witness ==
    /\ Len(x_calls) = 2
    /\ x_calls[1].operation = "Apply" /\ x_calls[1].wait_time # 0
    /\ "sleep" \in Range(x_calls[1].events)
    /\ x_calls[2].operation = "Plan" /\ x_calls[2].wait_time # 0
    /\ "sleep" \notin Range(x_calls[2].events)

\* the exception run met first: the one wrapped by the except clause of
\* its loop, or the one it let through
Cause == trace[CHOOSE p \in Positions : trace[p].op = "exception"].kw

\* the problems an operator fixes in the input files: file access, missing
\* depends_on, dangling reference, cycle, template rendering
OperatorFixable ==
    {"FileError", "DefinitionKeyError", "DependencyError incorrect",
     "DependencyError cyclical", "TemplateFileError"}

\* C16: main reports a failure of run as a configuration error exactly when
\* its cause is one an operator fixes in the input files, and as an
\* unexpected error otherwise.
C16_ReportCategories ==
    outcome \notin {"running", "returned"} =>
        /\ report \in {"Configuration error", "Unexpected error"}
        /\ (report = "Configuration error") <=> (Cause \in OperatorFixable)

----------------------------------------------------------------------------
(* dependencies_map called on its own, on every bounded directory *)

MaxDeps == 2       \* names in one list of a depends_on map

\* n names: x, y, x, ...
AlternatingNames(n) == [j \in 1..n |-> IF j % 2 = 1 THEN <<"x">> ELSE <<"y">>]

\* depends_on of a record: no type, one type with up to MaxDeps names, or
\* two types with a name each, in either order
MapDependsOnChoices ==
    {<<>>}
    \cup {<< <<<<"role">>, AlternatingNames(n)>> >> : n \in 0..MaxDeps}
    \cup {<< <<<<"role">>, <<<<"x">>>>>>, <<<<"db">>, <<<<"y">>>>>> >>,
          << <<<<"db">>, <<<<"y">>>>>>, <<<<"role">>, <<<<"x">>>>>> >>}

MapRecordChoices ==
    {r \in [name : Names, has_depends_on : BOOLEAN,
            depends_on : MapDependsOnChoices] :
        ~r.has_depends_on => r.depends_on = <<>>}

\* os.listdir gives the file names in any order
MapStemOrders == StemOrders \cup {<<<<"role">>, <<"db">>>>}

MapInit ==
    /\ IsDirectory(files, MapStemOrders, MapRecordChoices)
    /\ map_out = NoMap
    /\ d_map = <<>> /\ sort_out = Pending
    /\ render_args = NoRender /\ render_out = NoRender
    /\ x_calls = <<>>
    /\ config = [operation |-> "Plan", run_mode |-> "default"]
    /\ pc = "idle" /\ sorted_map = <<>>
    /\ idx = 0 /\ rec = 0 /\ rsc_drift = "" /\ sql = <<>>
    /\ conn = "none" /\ trace = <<>> /\ outcome = "running" /\ report = "none"

MapCall ==
    /\ map_out.kind = "pending"
    /\ map_out' = DependenciesMap(files)
    /\ UNCHANGED <<d_map, sort_out, render_args, render_out, x_calls, runVars>>

MapNext == MapCall

SpecMap == MapInit /\ [][MapNext]_vars

----------------------------------------------------------------------------
(* Claims about dependencies_map, checked under SpecMap *)

Mapped == map_out.kind # "pending"

\* the files that hold records, and the places <<f, j>> of their records
Tables == {f \in 1..Len(files) : files[f].kind = "table"}
Places == {<<f, j>> \in (1..Len(files)) \X (1..MaxRecords + 1) :
              f \in Tables /\ j <= Len(files[f].records)}

RecordAt(pl) == files[pl[1]].records[pl[2]]
KeyAt(pl) == MakeKey(files[pl[1]].rtype, RecordAt(pl).name)

\* the <<depType, depName>> pairs of a depends_on map, in order
RECURSIVE PairsOf(_)
PairsOf(depends_on) ==
    IF depends_on = <<>> THEN <<>>
    ELSE [j \in 1..Len(Head(depends_on)[2]) |->
             <<Head(depends_on)[1], Head(depends_on)[2][j]>>]
         \o PairsOf(Tail(depends_on))

\* one 'depType::depName' per pair
Flattened(depends_on) ==
    LET ps == PairsOf(depends_on)
    IN  [j \in 1..Len(ps) |-> ps[j][1] \o <<Sep>> \o ps[j][2]]

\* C17: in the map it returns, dependencies_map maps the key 'T::N' of
\* every record to the flattened depends_on of that record.
C17_RecordsMapToFlattenedLists ==
    map_out.kind = "returned" =>
        \A pl \in Places :
            /\ Has(map_out.d_map, KeyAt(pl))
            /\ Get(map_out.d_map, KeyAt(pl)) = Flattened(RecordAt(pl).depends_on)

\* pl comes before pm in the order dependencies_map reads the records
Before(pl, pm) == pl[1] < pm[1] \/ (pl[1] = pm[1] /\ pl[2] < pm[2])

Offending == {pl \in Places : ~RecordAt(pl).has_depends_on}

FirstOffending == CHOOSE pl \in Offending : \A pm \in Offending \ {pl} : Before(pl, pm)

C20_OneNodePerRecord ==
    map_out.kind = "returned" => Len(map_out.d_map) = Cardinality(Places)

----------------------------------------------------------------------------
(* Utils.render_templates *)

\* A text is a sequence of characters.  A template is a sequence of items:
\* <<"lit", c>> is the character c, <<"var", v>> is {{ v }}, <<"bad", "">>
\* is a tag Jinja cannot parse.  A definition is an ordered dict from a
\* field to a value [is_str, text]: text is the value as Jinja prints it.
\* parse_one(...).sql(pretty=True) belongs to sqlglot: the model records the
\* statement handed to it as sql.

\* s.replace(c, "") for a character c
RemoveChar(s, c) == SelectSeq(s, LAMBDA x : x # c)

\* s.replace("--", ""): the occurrences found from the left, not overlapping
RECURSIVE RemoveDashPairs(_)
RemoveDashPairs(s) ==
    IF Len(s) < 2 THEN s
    ELSE IF s[1] = "-" /\ s[2] = "-" THEN RemoveDashPairs(SubSeq(s, 3, Len(s)))
    ELSE <<s[1]>> \o RemoveDashPairs(Tail(s))

\* the two replacements in the other order
SanitizeText_CommentsFirst(t) == RemoveChar(RemoveDashPairs(t), ";")

\* str(v).replace(";", "").replace("--", "")
SanitizeText(t) == RemoveDashPairs(RemoveChar(t, ";"))

\* {k: ... if isinstance(v, str) else v for k, v in definition.items()}
Sanitized(definition) ==
    [i \in 1..Len(definition) |->
        <<definition[i][1],
          IF definition[i][2].is_str
          THEN [is_str |-> TRUE, text |-> SanitizeText(definition[i][2].text)]
          ELSE definition[i][2]>>]

\* re.sub(r"\n+", "\n", sql)
RECURSIVE CollapseNewlines(_)
CollapseNewlines(s) ==
    IF Len(s) < 2 THEN s
    ELSE IF s[1] = "\n" /\ s[2] = "\n" THEN CollapseNewlines(Tail(s))
    ELSE <<s[1]>> \o CollapseNewlines(Tail(s))

Whitespace == {" ", "\n"}

\* s.strip(chars): every leading and every trailing character of chars
RECURSIVE Strip(_, _)
Strip(s, chars) ==
    IF s = <<>> THEN s
    ELSE IF s[1] \in chars THEN Strip(Tail(s), chars)
    ELSE IF s[Len(s)] \in chars THEN Strip(SubSeq(s, 1, Len(s) - 1), chars)
    ELSE s

\* the normalisation without .strip(";")
Normalise_KeepsTerminator(sql_text) == Strip(CollapseNewlines(sql_text), Whitespace)

\* the normalisation taking one ';' from the end: .removesuffix(";")
Normalise_OneTerminator(sql_text) ==
    LET t == Strip(CollapseNewlines(sql_text), Whitespace)
    IN  IF t # <<>> /\ t[Len(t)] = ";" THEN SubSeq(t, 1, Len(t) - 1) ELSE t

\* re.sub(r"\n+", "\n", sql).strip().strip(";")
Normalise(sql_text) == Strip(Strip(CollapseNewlines(sql_text), Whitespace), {";"})

\* meta.find_undeclared_variables(env.parse(template))
VarsOf(template) ==
    {template[i][2] : i \in {j \in 1..Len(template) : template[j][1] = "var"}}

\* env.parse / env.from_string raise TemplateSyntaxError
SyntaxError(template) == \E i \in 1..Len(template) : template[i][1] = "bad"

\* Environment() has keep_trailing_newline=False: one newline at the end of
\* the template source is dropped
Source(template) ==
    IF template # <<>> /\ template[Len(template)] = <<"lit", "\n">>
    THEN SubSeq(template, 1, Len(template) - 1)
    ELSE template

\* rsc_template.render(**bindings): an unbound variable prints as nothing
RECURSIVE RenderItems(_, _)
RenderItems(items, bindings) ==
    IF items = <<>> THEN <<>>
    ELSE LET it == Head(items)
             out == IF it[1] = "lit" THEN <<it[2]>>
                    ELSE IF Has(bindings, it[2]) THEN Get(bindings, it[2]).text
                    ELSE <<>>
         IN  out \o RenderItems(Tail(items), bindings)

Render(template, bindings) == RenderItems(Source(template), bindings)

\* the check that takes the name argument for a missing 'name' key
MissingVars_NameArgument(template, definition) ==
    {var \in VarsOf(template) :
        ~Has(definition, var) /\ var # "iac_action" /\ var # "name"}

\* [var for var in required_vars if var not in definition and var != "iac_action"]
MissingVars(template, definition) ==
    {var \in VarsOf(template) : ~Has(definition, var) /\ var # "iac_action"}

RenderFailed(exc, error, missing) ==
    [kind |-> exc, error |-> error, mode |-> "", missing |-> missing,
     bound |-> <<>>, rendered |-> <<>>, sql |-> <<>>]

\* render_templates(template, definition, iac_action, name)
RenderTemplates(template, definition, iac_action, name) ==
    IF SyntaxError(template)
    THEN RenderFailed("TemplateFileError", "TemplateSyntaxError", {})
    ELSE IF definition = <<>>
    THEN LET bound == << <<"name", [is_str |-> TRUE, text |-> name]>> >>
             text  == Render(template, bound)
         IN  [kind |-> "returned", error |-> "", mode |-> "name only",
              missing |-> {}, bound |-> bound, rendered |-> text, sql |-> text]
    ELSE IF MissingVars(template, definition) # {}
    THEN RenderFailed("TemplateFileError", "Definition is missing variables",
                      MissingVars(template, definition))
    ELSE IF Has(definition, "iac_action")
    THEN RenderFailed("TypeError", "multiple values for iac_action", {})
    ELSE LET bound == <<<<"iac_action", [is_str |-> TRUE, text |-> iac_action]>>>>
                      \o Sanitized(definition)
             text  == Render(template, bound)
         IN  [kind |-> "returned", error |-> "", mode |-> "definition",
              missing |-> {}, bound |-> bound, rendered |-> text,
              sql |-> Normalise(text)]

----------------------------------------------------------------------------
(* render_templates called on its own *)

MaxTemplate == 3   \* items of a template
MaxValue == 3      \* characters of the value of a definition field

Str(t)   == [is_str |-> TRUE, text |-> t]
Other(t) == [is_str |-> FALSE, text |-> t]

\* templates that substitute name, and every value of name
NameTemplates ==
    {t \in SeqsUpTo({<<"lit", "a">>, <<"var", "name">>}, MaxTemplate) :
        "name" \in VarsOf(t)}
NameValues ==
    {[is_str |-> b, text |-> t] :
        b \in BOOLEAN, t \in SeqsUpTo({";", "-", "a"}, MaxValue)}

\* templates of every shape, and the definitions with or without each field
Items ==
    {<<"lit", c>> : c \in {"a", ";", " ", "\n"}}
    \cup {<<"var", v>> : v \in {"name", "comment", "iac_action"}}
    \cup {<<"bad", "">>}
Fields(k, values) == {<<>>} \cup {<< <<k, v>> >> : v \in values}
Definitions ==
    {n \o c \o a : n \in Fields("name", {Str(<<"a">>), Str(<<";">>),
                                             Str(<<"\n", "\n">>)}),
                   c \in Fields("comment", {Other(<<";">>)}),
                   a \in Fields("iac_action", {Str(<<"a">>)})}

RenderInit ==
    /\ \/ \E t \in NameTemplates : \E v \in NameValues :
             render_args = [template |-> t, definition |-> << <<"name", v>> >>,
                            iac_action |-> <<"c">>, name |-> <<"n">>]
       \/ \E t \in SeqsUpTo(Items, MaxTemplate) : \E d \in Definitions :
             render_args = [template |-> t, definition |-> d,
                            iac_action |-> <<"c">>, name |-> <<"n">>]
    /\ render_out = NoRender
    /\ d_map = <<>> /\ sort_out = Pending /\ map_out = NoMap
    /\ x_calls = <<>>
    /\ config = [operation |-> "Plan", run_mode |-> "default"]
    /\ files = <<>> /\ pc = "idle" /\ sorted_map = <<>>
    /\ idx = 0 /\ rec = 0 /\ rsc_drift = "" /\ sql = <<>>
    /\ conn = "none" /\ trace = <<>> /\ outcome = "running" /\ report = "none"

RenderCall ==
    /\ render_out.kind = "pending"
    /\ render_out' = RenderTemplates(render_args.template, render_args.definition,
                                     render_args.iac_action, render_args.name)
    /\ UNCHANGED <<d_map, sort_out, map_out, render_args, x_calls, runVars>>

RenderNext == RenderCall

SpecRender == RenderInit /\ [][RenderNext]_vars

----------------------------------------------------------------------------
(* Claims about render_templates, checked under SpecRender *)

Rendered == render_out.kind = "returned"

HasDashPair(t) == \E i \in 1..(Len(t) - 1) : t[i] = "-" /\ t[i + 1] = "-"

\* t holds a statement separator or an inline-comment marker
Dirty(t) == ";" \in Range(t) \/ HasDashPair(t)

\* the number of "-" that t starts with
LeadingDashes(t) ==
    CHOOSE n \in 0..Len(t) :
        /\ \A i \in 1..n : t[i] = "-"
        /\ n = Len(t) \/ t[n + 1] # "-"

\* w with every "--" taken out: a run of n "-" leaves n % 2 of them
RECURSIVE WithoutMarkers(_)
WithoutMarkers(w) ==
    IF w = <<>> THEN <<>>
    ELSE IF w[1] # "-" THEN <<w[1]>> \o WithoutMarkers(Tail(w))
    ELSE LET n == LeadingDashes(w)
         IN  (IF n % 2 = 1 THEN <<"-">> ELSE <<>>)
             \o WithoutMarkers(SubSeq(w, n + 1, Len(w)))

\* t with every ";" and then every "--" taken out, the rest in order
Clean(t) == WithoutMarkers(SelectSeq(t, LAMBDA c : c # ";"))

\* the definition with its string values clean, and iac_action
CleanBindings ==
    <<<<"iac_action", Str(render_args.iac_action)>>>>
    \o [i \in 1..Len(render_args.definition) |->
           <<render_args.definition[i][1],
             IF render_args.definition[i][2].is_str
             THEN Str(Clean(render_args.definition[i][2].text))
             ELSE render_args.definition[i][2]>>]

\* C12: when a string value of the definition that holds ';' or '--' is
\* substituted, what is substituted is the value with every ';' and every
\* '--' taken out (also a '--' that taking out a ';' brings together) and
\* the rest in order, never the value itself.
C12_SubstitutesCleanValues ==
    (Rendered /\ render_out.mode = "definition") =>
        \A i \in 1..Len(render_args.definition) :
            LET k == render_args.definition[i][1]
                v == render_args.definition[i][2]
            IN  (v.is_str /\ Dirty(v.text) /\ k \in VarsOf(render_args.template)) =>
                    /\ Get(render_out.bound, k).text = Clean(v.text)
                    /\ ~Dirty(Get(render_out.bound, k).text)
                    /\ Get(render_out.bound, k).text # v.text
                    /\ render_out.rendered = Render(render_args.template, CleanBindings)

\* the value '-;-' substituted: nothing of it is left
C12_Witness ==
    /\ Rendered
    /\ render_args.definition = << <<"name", Str(<<"-", ";", "-">>)>> >>
    /\ render_args.template = <<<<"lit", "a">>, <<"var", "name">>>>
    /\ render_out.rendered = <<"a">>

\* the variables the template needs from the definition and does not find
Unsupplied ==
    (VarsOf(render_args.template) \ {"iac_action"}) \ Keys(render_args.definition)

HasBlankRun(t) == \E i \in 1..(Len(t) - 1) : t[i] = "\n" /\ t[i + 1] = "\n"

EndsWith(t, c) == t # <<>> /\ t[Len(t)] = c

RECURSIVE At(_, _)
At(t, I) ==
    IF I = {} THEN <<>>
    ELSE LET i == CHOOSE j \in I : \A k \in I : j <= k
         IN  <<t[i]>> \o At(t, I \ {i})

\* t with every run of line breaks made one line break
OneBreakPerRun(t) ==
    At(t, {i \in 1..Len(t) : ~(t[i] = "\n" /\ i > 1 /\ t[i - 1] = "\n")})

\* t without the characters of chars it starts and ends with
Trimmed(t, chars) ==
    LET inner == {i \in 1..Len(t) : t[i] \notin chars}
    IN  IF inner = {} THEN <<>>
        ELSE SubSeq(t, CHOOSE i \in inner : \A k \in inner : i <= k,
                       CHOOSE i \in inner : \A k \in inner : k <= i)

\* t without one ';' at its end, if it has one there
WithoutOneTerminator(t) ==
    IF EndsWith(t, ";") THEN SubSeq(t, 1, Len(t) - 1) ELSE t

Normalized == Rendered /\ render_out.mode = "definition"

\* C21 as stated: the statement is the rendered text with every run of
\* line breaks made one, then trimmed of whitespace, then without one ';'
\* at its end.
C21_NormalizationTakesOneTerminator ==
    Normalized =>
        render_out.sql =
            WithoutOneTerminator(Trimmed(OneBreakPerRun(render_out.rendered),
                                         Whitespace))

\* C21 amended: the statement is the rendered text with every run of line
\* breaks made one, then trimmed of whitespace, then trimmed of every ';' at
\* its start and at its end; whitespace that this uncovers stays.
C21_NormalizationTrimsTerminators ==
    Normalized =>
        LET trimmed == Trimmed(OneBreakPerRun(render_out.rendered), Whitespace)
        IN  /\ render_out.sql = Trimmed(trimmed, {";"})
            /\ render_out.sql # <<>> =>
                   /\ render_out.sql[1] # ";"
                   /\ render_out.sql[Len(render_out.sql)] # ";"

\* a ';' taken from the start as well as from the end
C21_Witness ==
    /\ Normalized
    /\ render_out.rendered = <<";", "a", ";">>
    /\ render_out.sql = <<"a">>

----------------------------------------------------------------------------
(* A further claim about dependencies_sort, checked under SpecSort *)

\* C22: dependencies_sort returns a list only for a map without a cycle
\* whose references all resolve: for a map with a cycle, an undefined
\* reference or both it raises DependencyError and returns no order, not
\* even a partial one.
C22_ReturnsOnlyForSoundMaps ==
    Sorted =>
        /\ (HasCycle(d_map) \/ ~Resolvable(d_map)) =>
               /\ sort_out.kind = "DependencyError"
               /\ sort_out.order = <<>>
        /\ sort_out.kind = "returned" =>
               /\ ~HasCycle(d_map)
               /\ Resolvable(d_map)
               /\ Len(sort_out.order) = Len(d_map)

\* an undefined reference on a key that was ordered before the error: two
\* keys had been processed when the lookup failed
C22_Witness ==
    /\ sort_out.kind = "DependencyError"
    /\ ~HasCycle(d_map)
    /\ Len(d_map) = 2
    /\ \E a, b \in Keys(d_map) :
          /\ a # b
          /\ b \in DepsOf(d_map, a)
          /\ Undefined(d_map) # {}
          /\ Undefined(d_map) \subseteq DepsOf(d_map, b)

----------------------------------------------------------------------------
(* A further claim about run, checked under SpecRun *)

\* run rendered an action template, handed a statement over or executed one
Acted(p) ==
    \/ trace[p].op = "render" /\ trace[p].tmpl = "template"
    \/ trace[p].op \in {"call", "sleep"} \cup ExecOps

\* run observed: it connected, loaded a definition file, rendered a state
\* query, called drift, raised or closed the connection
Observed(p) ==
    \/ trace[p].op \in {"connect", "load", "drift", "exception", "close"}
    \/ trace[p].op = "render" /\ trace[p].tmpl = "state_query"

\* what can fail in a run that only observes
ObservingErrors ==
    PlanErrors \cup {"ConnectionError", "FileError", "KeyError", "ValueError",
                     "TOMLDecodeError", "TemplateFileError", "DriftError"}

\* C23 as stated: with a run_mode other than the strings 'create-or-update'
\* and 'destroy', run renders no action template and executes nothing.
C23_OtherModesRenderNothing ==
    config.run_mode \notin {"create-or-update", "destroy"} =>
        \A p \in Positions : ~Acted(p)

\* C23 amended: with a run_mode that, in lower case, is neither
\* 'create-or-update' nor 'destroy', run renders no action template and
\* executes nothing, in Plan and in Apply alike: it only observes.  It ends
\* by closing the connection and returning unless loading, rendering a state
\* query or drift raises.
C23_UnknownModeOnlyObserves ==
    Lower(config.run_mode) \notin {"create-or-update", "destroy"} =>
        /\ \A p \in Positions : Observed(p) /\ ~Acted(p)
        /\ sql = <<>>
        /\ outcome \notin {"running", "returned"} =>
               /\ \E p \in Positions : trace[p].op = "exception"
               /\ Cause \in ObservingErrors
        /\ pc = "done" =>
               /\ outcome = "returned"
               /\ conn = "closed"
               /\ trace[Len(trace)].op = "close"

\* an Apply run in the mode 'default' that found two resources to create or
\* alter and returned
C23_Witness ==
    /\ config = [operation |-> "Apply", run_mode |-> "default"]
    /\ pc = "done" /\ conn = "closed"
    /\ \E p, q \in Positions :
          /\ p < q
          /\ trace[p].op = "drift" /\ trace[p].kw \in {"create", "alter"}
          /\ trace[q].op = "drift" /\ trace[q].kw \in {"create", "alter"}

====
